---------------------------- MODULE Spec2Model ----------------------------
(***************************************************************************)
(* A model of src/src/lib.rs: the tracing wrapper around                   *)
(* tokio::sync::RwLock.  One lock instance, a fixed set of calls.  Every   *)
(* task performs one read() or write() call; a call is followed through    *)
(* its shared-state steps (fetch_add, load, trace emission, the await on   *)
(* the underlying lock, guard construction, guard use, try_map, drop).     *)
(***************************************************************************)
EXTENDS Naturals, Sequences, FiniteSets

\* Number of read()/write() calls made on the lock (one per task).
NTasks == 2

Tasks == 1..NTasks

Ops == {"READ", "WRITE"}

\* The protected value T is a struct of two sub-parts; each holds a small value.
Fields == {"a", "b"}
Values == {0, 1}

\* The projection passed to try_map yields Some(sub-part) or None.
NoField == "none"
Projections == Fields \cup {NoField}

\* The null pointer of a Mapped Write Guard that does not exist.
NullPtr == 99

\* name: generator.next().unwrap(), fixed at construction.
LockName == "lock-name"

VARIABLES
    counter,   \* RwLock.idx : AtomicU64
    pc,        \* position of each call
    op,        \* which of read()/write() the call is
    idx,       \* the local `idx` of the call, later the guard's idx field
    readers,   \* live tokio read guards (shared holds), by call
    writer,    \* live tokio write guards (exclusive holds), by call
    waiters,   \* FIFO queue of calls suspended in lock.read()/lock.write()
    mem,       \* the protected value, by address
    data,      \* RwLockMappedWriteGuard.data, by call
    log,       \* the lines handed to log::warn!, in order
    ticket,    \* history: the value fetch_add installed for the call
    nrel,      \* history: underlying releases performed for the call's hold
    tried,     \* history: try_map returned Err(this) to the call
    proj,      \* history: the sub-part the successful projection selected
    stack,     \* the symbols of a captured backtrace, innermost first
    trace      \* what log_backtrace made of `stack`

vars == <<counter, pc, op, idx, readers, writer, waiters, mem, data, log,
          ticket, nrel, tried, proj, stack, trace>>

\* Address of a sub-part inside the protected value (`data as *mut U`).
FieldAddr(f) == IF f = "a" THEN 0 ELSE 1

Addrs == {FieldAddr(f) : f \in Fields}

\* format!("[{op}] {ev} ({name}:{idx})") handed to log_backtrace; `call` is
\* history only (which call emitted the line).
Line(o, ev, n, i, t) == [op |-> o, ev |-> ev, name |-> n, idx |-> i, call |-> t]

\* log_backtrace(message): one warn! record appended to the sink.
LogBacktrace(msg) == log' = Append(log, msg)

Range(s) == {s[i] : i \in DOMAIN s}

Remove(s, x) == SelectSeq(s, LAMBDA y : y # x)

\* RwLock::new: the lock, its name and its counter set to 0.
LockInit ==
    /\ counter = 0
    /\ pc = [t \in Tasks |-> "idle"]
    /\ op = [t \in Tasks |-> "READ"]
    /\ idx = [t \in Tasks |-> 0]
    /\ readers = {}
    /\ writer = {}
    /\ waiters = <<>>
    /\ mem = [a \in Addrs |-> 0]
    /\ data = [t \in Tasks |-> NullPtr]
    /\ log = <<>>
    /\ ticket = [t \in Tasks |-> 0]
    /\ nrel = [t \in Tasks |-> 0]
    /\ tried = [t \in Tasks |-> FALSE]
    /\ proj = [t \in Tasks |-> NoField]

\* No backtrace has been captured.
NoTrace == [status |-> "none", lines |-> <<>>]

Init ==
    /\ LockInit
    /\ stack = <<>>
    /\ trace = NoTrace

\* self.idx.fetch_add(1, Ordering::SeqCst): first statement of read()/write().
\* Calls are interchangeable, so they are numbered in the order in which they
\* execute their fetch_add: call t starts once the calls below t have started.
FetchAdd(t, o) ==
    /\ pc[t] = "idle"
    /\ \A u \in Tasks : u < t => pc[u] # "idle"
    /\ counter' = counter + 1
    /\ ticket' = [ticket EXCEPT ![t] = counter + 1]
    /\ op' = [op EXCEPT ![t] = o]
    /\ pc' = [pc EXCEPT ![t] = "incremented"]
    /\ UNCHANGED <<stack, trace, idx, readers, writer, waiters, mem, data, log, nrel, tried, proj>>

\* Mutant of Load: the call keeps the value fetch_add returned (the counter
\* before its own increment) instead of loading the counter again.
LoadFetchAddResult(t) ==
    /\ pc[t] = "incremented"
    /\ idx' = [idx EXCEPT ![t] = ticket[t] - 1]
    /\ pc' = [pc EXCEPT ![t] = "loaded"]
    /\ UNCHANGED <<stack, trace, counter, op, readers, writer, waiters, mem, data, log,
                   ticket, nrel, tried, proj>>

\* let idx = self.idx.load(Ordering::SeqCst): a second, separate atomic access.
Load(t) ==
    /\ pc[t] = "incremented"
    /\ idx' = [idx EXCEPT ![t] = counter]
    /\ pc' = [pc EXCEPT ![t] = "loaded"]
    /\ UNCHANGED <<stack, trace, counter, op, readers, writer, waiters, mem, data, log,
                   ticket, nrel, tried, proj>>

\* Mutant of LogAcquire: the request line is not emitted.
LogAcquireSkipped(t) ==
    /\ pc[t] = "loaded"
    /\ pc' = [pc EXCEPT ![t] = "requested"]
    /\ UNCHANGED <<stack, trace, counter, op, idx, readers, writer, waiters, mem, data, log,
                   ticket, nrel, tried, proj>>

\* log_backtrace(&format!("[READ|WRITE] Acquire ({}:{})", self.name, idx)).
LogAcquire(t) ==
    /\ pc[t] = "loaded"
    /\ LogBacktrace(Line(op[t], "Acquire", LockName, idx[t], t))
    /\ pc' = [pc EXCEPT ![t] = "requested"]
    /\ UNCHANGED <<stack, trace, counter, op, idx, readers, writer, waiters, mem, data,
                   ticket, nrel, tried, proj>>

\* Mutant of CanGrant: the underlying lock hands out any hold at any time.
CanGrantIgnoresHolders(o) == TRUE

\* The underlying lock can hand out the hold `o` asks for: shared access
\* while no exclusive hold exists, exclusive access while no hold exists.
CanGrant(o) ==
    IF o = "READ" THEN writer = {} ELSE writer = {} /\ readers = {}

\* The underlying guard comes into being: the hold is taken.
TakeHold(t) ==
    IF op[t] = "READ"
    THEN readers' = readers \cup {t} /\ UNCHANGED writer
    ELSE writer' = writer \cup {t} /\ UNCHANGED readers

\* self.lock.read().await / self.lock.write().await, first poll: the hold is
\* granted at once when it is free and nobody queues, else the call suspends
\* at the tail of the underlying lock's FIFO queue.
Await(t) ==
    /\ pc[t] = "requested"
    /\ IF waiters = <<>> /\ CanGrant(op[t])
       THEN /\ TakeHold(t)
            /\ pc' = [pc EXCEPT ![t] = "granted"]
            /\ UNCHANGED waiters
       ELSE /\ waiters' = Append(waiters, t)
            /\ pc' = [pc EXCEPT ![t] = "waiting"]
            /\ UNCHANGED <<readers, writer>>
    /\ UNCHANGED <<stack, trace, counter, op, idx, mem, data, log, ticket, nrel, tried, proj>>

\* The suspended call at the head of the queue is granted and resumes.
Wake(t) ==
    /\ pc[t] = "waiting"
    /\ waiters # <<>>
    /\ Head(waiters) = t
    /\ CanGrant(op[t])
    /\ TakeHold(t)
    /\ waiters' = Tail(waiters)
    /\ pc' = [pc EXCEPT ![t] = "granted"]
    /\ UNCHANGED <<stack, trace, counter, op, idx, mem, data, log, ticket, nrel, tried, proj>>

\* The suspended future is dropped: the underlying Acquire future leaves the
\* queue; the rest of read()/write() never runs.
Cancel(t) ==
    /\ pc[t] = "waiting"
    /\ waiters' = Remove(waiters, t)
    /\ pc' = [pc EXCEPT ![t] = "cancelled"]
    /\ UNCHANGED <<stack, trace, counter, op, idx, readers, writer, mem, data, log,
                   ticket, nrel, tried, proj>>

\* Mutant of GuardNew: the Got line is tagged with the counter's value at the
\* time of the grant instead of the number the call observed at its request.
GuardNewReloads(t) ==
    /\ pc[t] = "granted"
    /\ LogBacktrace(Line(op[t], "Got", LockName, counter, t))
    /\ pc' = [pc EXCEPT ![t] = "holding"]
    /\ UNCHANGED <<stack, trace, counter, op, idx, readers, writer, waiters, mem, data,
                   ticket, nrel, tried, proj>>

\* Mutant of GuardNew: the guard is built and returned without a Got line.
GuardNewSilent(t) ==
    /\ pc[t] = "granted"
    /\ pc' = [pc EXCEPT ![t] = "holding"]
    /\ UNCHANGED <<stack, trace, counter, op, idx, readers, writer, waiters, mem, data, log,
                   ticket, nrel, tried, proj>>

\* RwLockReadGuard::new / RwLockWriteGuard::new: build the guard, then
\* log_backtrace("[..] Got (name:idx)").
GuardNew(t) ==
    /\ pc[t] = "granted"
    /\ LogBacktrace(Line(op[t], "Got", LockName, idx[t], t))
    /\ pc' = [pc EXCEPT ![t] = "holding"]
    /\ UNCHANGED <<stack, trace, counter, op, idx, readers, writer, waiters, mem, data,
                   ticket, nrel, tried, proj>>

\* Deref of a guard down to the protected value: reading sub-part f.
GuardDeref(f) == mem[FieldAddr(f)]

\* DerefMut of a Write Guard down to the protected value: writing sub-part f.
GuardWrite(t, f, v) ==
    /\ pc[t] = "holding"
    /\ op[t] = "WRITE"
    /\ mem[FieldAddr(f)] # v
    /\ mem' = [mem EXCEPT ![FieldAddr(f)] = v]
    /\ UNCHANGED <<stack, trace, counter, pc, op, idx, readers, writer, waiters, data, log,
                   ticket, nrel, tried, proj>>

\* Mutant of TryMapErr: the guard is dropped on the None branch instead of
\* being handed back (its Drop runs and the hold is given up).
TryMapErrDropsGuard(t) ==
    /\ tried' = [tried EXCEPT ![t] = TRUE]
    /\ LogBacktrace(Line(op[t], "Release", LockName, idx[t], t))
    /\ writer' = writer \ {t}
    /\ nrel' = [nrel EXCEPT ![t] = @ + 1]
    /\ pc' = [pc EXCEPT ![t] = "done"]
    /\ UNCHANGED <<stack, trace, counter, op, idx, readers, waiters, mem, data, ticket, proj>>

\* try_map, projection yields None: return Err(this), the guard moved back.
TryMapErr(t) ==
    /\ tried' = [tried EXCEPT ![t] = TRUE]
    /\ UNCHANGED <<stack, trace, counter, pc, op, idx, readers, writer, waiters, mem, data,
                   log, ticket, nrel, proj>>

\* Mutant of TryMapOk: the tokio guard inside the Write Guard is dropped
\* instead of forgotten, so the exclusive hold ends while the pointer lives on.
TryMapOkDropsHold(t, f) ==
    /\ data' = [data EXCEPT ![t] = FieldAddr(f)]
    /\ proj' = [proj EXCEPT ![t] = f]
    /\ writer' = writer \ {t}
    /\ pc' = [pc EXCEPT ![t] = "mapped"]
    /\ UNCHANGED <<stack, trace, counter, op, idx, readers, waiters, mem, log,
                   ticket, nrel, tried>>

\* Mutant of TryMapOk: the pointer kept is that of the whole value (its first
\* sub-part), not of the sub-part the projection returned.
TryMapOkKeepsBase(t, f) ==
    /\ data' = [data EXCEPT ![t] = FieldAddr("a")]
    /\ proj' = [proj EXCEPT ![t] = f]
    /\ pc' = [pc EXCEPT ![t] = "mapped"]
    /\ UNCHANGED <<stack, trace, counter, op, idx, readers, writer, waiters, mem, log,
                   ticket, nrel, tried>>

\* try_map, projection yields Some(data): data as *mut U; mem::forget(this)
\* (no Drop of the Write Guard, no drop of the tokio guard inside it);
\* Ok(RwLockMappedWriteGuard { data, marker }).
TryMapOk(t, f) ==
    /\ data' = [data EXCEPT ![t] = FieldAddr(f)]
    /\ proj' = [proj EXCEPT ![t] = f]
    /\ pc' = [pc EXCEPT ![t] = "mapped"]
    /\ UNCHANGED <<stack, trace, counter, op, idx, readers, writer, waiters, mem, log,
                   ticket, nrel, tried>>

\* RwLockWriteGuard::try_map(this, f).
TryMap(t, p) ==
    /\ pc[t] = "holding"
    /\ op[t] = "WRITE"
    /\ IF p = NoField THEN TryMapErr(t) ELSE TryMapOk(t, p)

\* Deref for RwLockMappedWriteGuard: unsafe { &*self.data }.
MappedDeref(t) == mem[data[t]]

\* DerefMut for RwLockMappedWriteGuard: unsafe { &mut *self.data } = v.
MappedWrite(t, v) ==
    /\ pc[t] = "mapped"
    /\ mem[data[t]] # v
    /\ mem' = [mem EXCEPT ![data[t]] = v]
    /\ UNCHANGED <<stack, trace, counter, pc, op, idx, readers, writer, waiters, data, log,
                   ticket, nrel, tried, proj>>

\* The Mapped Write Guard goes out of scope: the struct has no Drop impl and
\* owns only a raw pointer and a PhantomData, so nothing else happens.
MappedDrop(t) ==
    /\ pc[t] = "mapped"
    /\ pc' = [pc EXCEPT ![t] = "mapdone"]
    /\ UNCHANGED <<stack, trace, counter, op, idx, readers, writer, waiters, mem, data, log,
                   ticket, nrel, tried, proj>>

\* Mutant of DropLog: the hold is given back to the underlying lock before
\* the Release line is emitted.
DropLogReleasesFirst(t) ==
    /\ pc[t] = "holding"
    /\ readers' = readers \ {t}
    /\ writer' = writer \ {t}
    /\ LogBacktrace(Line(op[t], "Release", LockName, idx[t], t))
    /\ pc' = [pc EXCEPT ![t] = "dropping"]
    /\ UNCHANGED <<stack, trace, counter, op, idx, waiters, mem, data,
                   ticket, nrel, tried, proj>>

\* Drop::drop of a Read/Write Guard: log_backtrace("[..] Release (name:idx)").
DropLog(t) ==
    /\ pc[t] = "holding"
    /\ LogBacktrace(Line(op[t], "Release", LockName, idx[t], t))
    /\ pc' = [pc EXCEPT ![t] = "dropping"]
    /\ UNCHANGED <<stack, trace, counter, op, idx, readers, writer, waiters, mem, data,
                   ticket, nrel, tried, proj>>

\* Mutant of DropRelease: the guard goes away but the tokio guard inside it
\* is not dropped, so the underlying lock keeps the hold.
DropReleaseKeepsHold(t) ==
    /\ pc[t] = "dropping"
    /\ nrel' = [nrel EXCEPT ![t] = @ + 1]
    /\ pc' = [pc EXCEPT ![t] = "done"]
    /\ UNCHANGED <<stack, trace, counter, op, idx, readers, writer, waiters, mem, data, log,
                   ticket, tried, proj>>

\* After Drop::drop the guard's fields are dropped: the tokio guard gives the
\* hold back to the underlying lock.
DropRelease(t) ==
    /\ pc[t] = "dropping"
    /\ readers' = readers \ {t}
    /\ writer' = writer \ {t}
    /\ nrel' = [nrel EXCEPT ![t] = @ + 1]
    /\ pc' = [pc EXCEPT ![t] = "done"]
    /\ UNCHANGED <<stack, trace, counter, op, idx, waiters, mem, data, log, ticket, tried, proj>>

Next ==
    \/ \E t \in Tasks, o \in Ops : FetchAdd(t, o)
    \/ \E t \in Tasks : Load(t)
    \/ \E t \in Tasks : LogAcquire(t)
    \/ \E t \in Tasks : Await(t)
    \/ \E t \in Tasks : Wake(t)
    \/ \E t \in Tasks : Cancel(t)
    \/ \E t \in Tasks : GuardNew(t)
    \/ \E t \in Tasks, f \in Fields, v \in Values : GuardWrite(t, f, v)
    \/ \E t \in Tasks, p \in Projections : TryMap(t, p)
    \/ \E t \in Tasks, v \in Values : MappedWrite(t, v)
    \/ \E t \in Tasks : MappedDrop(t)
    \/ \E t \in Tasks : DropLog(t)
    \/ \E t \in Tasks : DropRelease(t)

Spec == Init /\ [][Next]_vars

\* The calls, the lock and the log: every step but the writes through a
\* guard, which change the protected value and nothing else.
LockNext ==
    \/ \E t \in Tasks, o \in Ops : FetchAdd(t, o)
    \/ \E t \in Tasks : Load(t)
    \/ \E t \in Tasks : LogAcquire(t)
    \/ \E t \in Tasks : Await(t)
    \/ \E t \in Tasks : Wake(t)
    \/ \E t \in Tasks : Cancel(t)
    \/ \E t \in Tasks : GuardNew(t)
    \/ \E t \in Tasks, p \in Projections : TryMap(t, p)
    \/ \E t \in Tasks : MappedDrop(t)
    \/ \E t \in Tasks : DropLog(t)
    \/ \E t \in Tasks : DropRelease(t)

LockSpec == Init /\ [][LockNext]_vars

TypeOK ==
    /\ counter \in 0..NTasks
    /\ pc \in [Tasks -> {"idle", "incremented", "loaded", "requested", "waiting",
                         "cancelled", "granted", "holding", "dropping", "done",
                         "mapped", "mapdone"}]
    /\ op \in [Tasks -> Ops]
    /\ idx \in [Tasks -> 0..NTasks]
    /\ readers \subseteq Tasks
    /\ writer \subseteq Tasks
    /\ Range(waiters) \subseteq Tasks
    /\ mem \in [Addrs -> Values]
    /\ data \in [Tasks -> Addrs \cup {NullPtr}]

\* Scheduling the code relies on: the runtime polls a call that can resume,
\* synchronous code runs on, and a guard's scope ends.  Starting a call,
\* cancelling one, writing through a guard and calling try_map stay free.
Progress(t) ==
    \/ Load(t)
    \/ LogAcquire(t)
    \/ Await(t)
    \/ Wake(t)
    \/ GuardNew(t)
    \/ DropLog(t)
    \/ DropRelease(t)
    \/ MappedDrop(t)

FairSpec == Spec /\ \A t \in Tasks : WF_vars(Progress(t))

-----------------------------------------------------------------------------
\* log_backtrace: the frame filter and the trace formatter.

\* const FRAME_OFFSET: usize = 3.
FRAME_OFFSET == 3

\* Longest captured backtrace considered.
MaxFrames == 6

\* s.filename() is None.
NoFile == "nofile"

\* What s.filename() can be: no path, the path of this source file (file!()),
\* a caller's path, or a path below ~/.cargo, ~/.rustup or /rustc/<hash>.
Files == {NoFile, "this_file", "caller", ".cargo", ".rustup", "/rustc"}

\* A resolved symbol: its filename, and whether lineno() and name() are Some.
\* The symbols told apart are those the code tells apart.
Symbols ==
    {[file |-> f, lineno |-> TRUE, name |-> TRUE] : f \in Files \ {NoFile}}
    \cup {[file |-> NoFile, lineno |-> FALSE, name |-> FALSE],
          [file |-> "caller", lineno |-> FALSE, name |-> TRUE],
          [file |-> "caller", lineno |-> TRUE, name |-> FALSE]}

\* p.ends_with(this_file)
EndsWithThisFile(f) == f = "this_file"

\* p.contains(".cargo") || p.contains(".rustup") || p.contains("/rustc")
HasMarker(f) == f \in {".cargo", ".rustup", "/rustc"}

\* .skip_while(|s| s.filename().map(|p| !p.ends_with(this_file)).unwrap_or(true))
RECURSIVE SkipWhile(_)
SkipWhile(s) ==
    IF s = <<>> THEN <<>>
    ELSE IF (IF s[1].file = NoFile THEN TRUE ELSE ~EndsWithThisFile(s[1].file))
         THEN SkipWhile(Tail(s))
         ELSE s

\* .enumerate(): positions count from 0.
Enumerate(s) == [k \in 1..Len(s) |-> [i |-> k - 1, s |-> s[k]]]

\* The closure of .filter(|&(i, s)| ...).
Keep(e) ==
    /\ e.i >= FRAME_OFFSET
    /\ IF e.s.file = NoFile THEN FALSE ELSE ~HasMarker(e.s.file)

\* The iterator `symbols`.
Retained(s) == SelectSeq(Enumerate(SkipWhile(s)), Keep)

\* Mutant of FormatLine: the offset is not subtracted from the position.
FormatLineAbsolute(e) == [index |-> e.i, s |-> e.s]

\* One line of the fold: "[{i - FRAME_OFFSET}] {filename}:{lineno} {name}\n";
\* lineno().unwrap() and name().unwrap() panic on None.
FormatLine(e) == [index |-> e.i - FRAME_OFFSET, s |-> e.s]

\* log_backtrace(message) on a captured backtrace: the lines handed to
\* log::warn!, or a panic before anything is emitted.
Backtrace(s) ==
    LET kept == Retained(s)
    IN  IF \E k \in DOMAIN kept : ~kept[k].s.lineno \/ ~kept[k].s.name
        THEN [status |-> "panicked", lines |-> <<>>]
        ELSE [status |-> "emitted",
              lines |-> [k \in DOMAIN kept |-> FormatLine(kept[k])]]

\* Backtrace::new(); trace.resolve(): the symbols of the captured frames,
\* innermost first, one after the other; any backtrace may be captured.
CaptureSymbol(s) ==
    /\ trace = NoTrace
    /\ Len(stack) < MaxFrames
    /\ stack' = Append(stack, s)
    /\ UNCHANGED <<trace, counter, pc, op, idx, readers, writer, waiters, mem,
                   data, log, ticket, nrel, tried, proj>>

\* log_backtrace runs on the captured backtrace.
EmitTrace ==
    /\ trace = NoTrace
    /\ trace' = Backtrace(stack)
    /\ UNCHANGED <<stack, counter, pc, op, idx, readers, writer, waiters, mem,
                   data, log, ticket, nrel, tried, proj>>

FilterNext ==
    \/ \E s \in Symbols : CaptureSymbol(s)
    \/ EmitTrace

FilterSpec == Init /\ [][FilterNext]_vars

-----------------------------------------------------------------------------
\* Vocabulary of the properties.

\* The call has observed its sequence number (its load has run).
Observed(t) == pc[t] \notin {"idle", "incremented"}

\* Positions of the log lines of kind ev emitted by call t.
LinesOf(t, ev) == {i \in DOMAIN log : log[i].call = t /\ log[i].ev = ev}

\* Positions of the log lines of kind ev tagged (name:i).
LinesTagged(n, i, ev) ==
    {j \in DOMAIN log : log[j].name = n /\ log[j].idx = i /\ log[j].ev = ev}

\* A Read/Write Guard of the call exists (from the grant to the end of its drop).
GuardLive(t) == pc[t] \in {"granted", "holding", "dropping"}
ReadGuardLive(t) == op[t] = "READ" /\ GuardLive(t)
WriteGuardLive(t) == op[t] = "WRITE" /\ GuardLive(t)
MappedLive(t) == pc[t] = "mapped"

\* The guard the call obtained is gone: dropped, or consumed by try_map.
GuardGone(t) == pc[t] \in {"done", "mapped", "mapdone"}

-----------------------------------------------------------------------------
\* C1: for N calls in any interleaving, the sequence numbers the calls
\* observe are pairwise distinct and, once every started call has observed
\* its number, are exactly the set 1..N.
C1_SequenceNumbersArePermutation ==
    /\ \A t, u \in Tasks :
         (t # u /\ Observed(t) /\ Observed(u)) => idx[t] # idx[u]
    /\ (\A t \in Tasks : pc[t] # "incremented")
         => {idx[t] : t \in {u \in Tasks : Observed(u)}} = 1..counter

\* C2: over the life of a Write Guard passed to a successful try_map and of
\* the Mapped Write Guard made from it, the exclusive hold is released exactly
\* once: never twice, and once the Mapped Write Guard is destroyed the hold
\* has been released.
C2_HoldReleasedExactlyOnce ==
    \A t \in Tasks :
        /\ nrel[t] <= 1
        /\ pc[t] = "mapdone" => (nrel[t] = 1 /\ t \notin writer)

\* C3: after a successful try_map a second write() is never granted while the
\* Mapped Write Guard is alive, and once the Mapped Write Guard has been
\* dropped a waiting write() does not wait forever.
C3_SecondWriterWaitsThenProceeds ==
    /\ [](\A t, u \in Tasks : (MappedLive(t) /\ u # t) => u \notin writer)
    /\ \A t, u \in Tasks :
         (pc[t] = "mapdone" /\ pc[u] = "waiting" /\ op[u] = "WRITE")
            ~> (pc[u] # "waiting")

\* C4: for every guard a read()/write() produced, the "Release" line carrying
\* the guard's name:idx pair is in the log at most once, and exactly once when
\* the guard is gone (dropped, or consumed by try_map).
C4_ReleasedExactlyOncePerGuard ==
    \A t \in Tasks :
        /\ (GuardLive(t) \/ GuardGone(t))
             => Cardinality(LinesTagged(LockName, idx[t], "Release")) <= 1
        /\ GuardGone(t)
             => Cardinality(LinesTagged(LockName, idx[t], "Release")) = 1

\* C5: each call's "Acquire" line precedes its "Got" line, which precedes its
\* "Release" line; no Got or Release line is in the log without the earlier
\* line(s) of the same call (same emitter, same name:idx tag) before it.
C5_TraceOrderPerCall ==
    /\ \A j \in DOMAIN log :
         /\ \A i \in 1..(j - 1) :
                log[i].call # log[j].call \/ log[i].ev # log[j].ev
         /\ log[j].ev = "Got" =>
              \E i \in 1..(j - 1) :
                  /\ log[i].call = log[j].call
                  /\ log[i].ev = "Acquire"
                  /\ log[i].idx = log[j].idx
         /\ log[j].ev = "Release" =>
              \E i \in 1..(j - 1) :
                  /\ log[i].call = log[j].call
                  /\ log[i].ev = "Got"
                  /\ log[i].idx = log[j].idx

\* A call has run to the end of its guard's drop while the other call's lines
\* lie between its own.
C5_Witness ==
    \E t \in Tasks :
        /\ pc[t] = "done"
        /\ \E i, j, k \in DOMAIN log :
             /\ i < j /\ j < k
             /\ log[i].call = t /\ log[i].ev = "Acquire"
             /\ log[j].call # t
             /\ log[k].call = t /\ log[k].ev = "Release"

\* C6: at most one exclusive accessor (live Write Guard or live Mapped Write
\* Guard) exists, and while one exists no Read Guard is live; Read Guards may
\* be live together.
C6_ReaderWriterExclusion ==
    LET exclusive == {t \in Tasks : WriteGuardLive(t) \/ MappedLive(t)}
    IN  /\ Cardinality(exclusive) <= 1
        /\ exclusive # {} => \A t \in Tasks : ~ReadGuardLive(t)

\* A Mapped Write Guard is alive while another call waits for the lock.
C6_Witness ==
    \E t, u \in Tasks : MappedLive(t) /\ pc[u] = "waiting"

C8_CancelledAttemptLeavesNoTrace ==
    \A t \in Tasks : pc[t] = "cancelled" =>
        /\ t \notin readers \cup writer
        /\ t \notin Range(waiters)
        /\ nrel[t] = 0
        /\ LinesTagged(LockName, idx[t], "Acquire") # {}
        /\ LinesTagged(LockName, idx[t], "Got") = {}
        /\ LinesTagged(LockName, idx[t], "Release") = {}

\* C9: when two calls, both write(), are the only calls on a fresh lock, one
\* observes sequence number 1 and the other 2, and the "Got" line of the call
\* with number 2 is emitted only after the call with number 1 has dropped its
\* guard.
C9_TwoWritersOrdered ==
    \A t, u \in Tasks :
        (/\ t # u
         /\ op[t] = "WRITE" /\ op[u] = "WRITE"
         /\ Observed(t) /\ Observed(u)
         /\ \A w \in Tasks \ {t, u} : pc[w] = "idle")
        => /\ {idx[t], idx[u]} = {1, 2}
           /\ (idx[t] = 2 /\ idx[u] = 1 /\ LinesOf(t, "Got") # {})
                => pc[u] = "done"

\* C10: a Mapped Write Guard made by try_map reads exactly the sub-part the
\* projection selected, as the original guard would read it, and a write
\* through it changes that sub-part of the protected value and nothing else.
C10_MappedGuardIsTheSubPart ==
    /\ [](\A t \in Tasks : MappedLive(t) =>
            /\ proj[t] \in Fields
            /\ MappedDeref(t) = GuardDeref(proj[t]))
    /\ [][\A t \in Tasks : (MappedLive(t) /\ MappedLive(t)') =>
            \A f \in Fields :
                GuardDeref(f)' # GuardDeref(f) =>
                    (f = proj[t] /\ MappedDeref(t)' = GuardDeref(f)')]_vars

\* A write through a Mapped Write Guard on sub-part b changed b and left a.
C10_Witness ==
    \E t \in Tasks :
        /\ MappedLive(t)
        /\ proj[t] = "b"
        /\ GuardDeref("b") = 1
        /\ GuardDeref("a") = 0
-----------------------------------------------------------------------------
\* Vocabulary of the properties of log_backtrace.

\* log_backtrace has run on the captured backtrace.
Ran == trace # NoTrace

\* The symbols of the backtrace from its first symbol of this source file on.
FromThisFile == SkipWhile(stack)

\* Positions (in FromThisFile) from the first symbol outside this source file
\* on: where the callers' frames begin.
CallerPositions ==
    {k \in DOMAIN FromThisFile :
        \E j \in 1..k : FromThisFile[j].file # "this_file"}

\* A symbol the path rules let through: it has a path without a marker.
Retainable(s) == s.file # NoFile /\ ~HasMarker(s.file)

\* C11: the first retained frame of every emitted trace has relative index 0,
\* whichever frames were filtered out before it.
C11_FirstRetainedIndexIsZero ==
    (trace.status = "emitted" /\ trace.lines # <<>>) => trace.lines[1].index = 0

\* C11 as amended: every line of an emitted trace is numbered with the
\* position of its symbol, counted from the first symbol of this source file,
\* minus FRAME_OFFSET; so the first retained frame has index 0 exactly when
\* the symbol at position FRAME_OFFSET is itself retained.
C11_IndexIsPositionMinusOffset ==
    trace.status = "emitted" =>
        /\ \A j \in DOMAIN trace.lines :
             LET k == trace.lines[j].index + FRAME_OFFSET + 1
             IN  /\ k \in DOMAIN FromThisFile
                 /\ FromThisFile[k] = trace.lines[j].s
        /\ \A j \in DOMAIN trace.lines : \A h \in DOMAIN trace.lines :
             j < h => trace.lines[j].index < trace.lines[h].index
        /\ trace.lines # <<>> =>
             (trace.lines[1].index = 0
                <=> Retainable(FromThisFile[FRAME_OFFSET + 1]))

\* A trace whose first retained frame is numbered 0 and whose second is not
\* numbered 1: a frame between them was filtered out.
C11_Witness ==
    /\ trace.status = "emitted"
    /\ Len(trace.lines) >= 2
    /\ trace.lines[1].index = 0
    /\ trace.lines[2].index > 1

\* C12: a symbol without path, line number or name never makes the emission
\* fail: whatever the backtrace, log_backtrace emits a trace.
C12_UnresolvableFramesNeverFail ==
    Ran => trace.status = "emitted"

\* C13: no symbol whose path has a .cargo, .rustup or /rustc marker is in the
\* emitted trace, and the symbols the filter retains, also those on either
\* side of such a symbol, are all emitted.
C13_MarkerFramesExcludedOthersKept ==
    Ran =>
        /\ \A k \in DOMAIN trace.lines : ~HasMarker(trace.lines[k].s.file)
        /\ \A k \in DOMAIN FromThisFile :
             (k - 1 >= FRAME_OFFSET /\ Retainable(FromThisFile[k]))
                => \E j \in DOMAIN trace.lines :
                       /\ trace.lines[j].s = FromThisFile[k]
                       /\ trace.lines[j].index = k - 1 - FRAME_OFFSET

\* C14: however many symbols of this source file are on the stack, none of
\* them is in the emitted trace, and every retainable symbol from the first
\* symbol outside this source file on is.
C14_OwnFramesSkippedCallersKept ==
    Ran =>
        /\ \A k \in DOMAIN trace.lines : trace.lines[k].s.file # "this_file"
        /\ \A k \in CallerPositions :
             (Retainable(FromThisFile[k]) /\ FromThisFile[k].file # "this_file")
                => \E j \in DOMAIN trace.lines :
                       trace.lines[j].index = k - 1 - FRAME_OFFSET

-----------------------------------------------------------------------------
\* C15: the Acquire, Got and Release lines of a call all carry the same tag:
\* the name the lock was constructed with and the sequence number the call
\* observed at its request step, which the guard keeps unchanged for its
\* whole life (every line ever emitted still agrees with the number its call
\* and guard hold now).
C15_OneTagPerCall ==
    \A j \in DOMAIN log :
        /\ Observed(log[j].call)
        /\ log[j].name = LockName
        /\ log[j].idx = idx[log[j].call]
        /\ log[j].op = op[log[j].call]

\* A call has emitted its three lines and its guard is gone, while the
\* counter has moved on from the number the call observed.
C15_Witness ==
    \E t \in Tasks :
        /\ pc[t] = "done"
        /\ LinesOf(t, "Acquire") # {}
        /\ LinesOf(t, "Got") # {}
        /\ LinesOf(t, "Release") # {}
        /\ counter # idx[t]

-----------------------------------------------------------------------------
\* The underlying reader-writer lock on its own, as seen through the calls:
\* what is left of a call's position when the counter and the log are ignored.
UnderlyingState(p) ==
    CASE p \in {"idle", "incremented", "loaded", "requested"} -> "out"
      [] p = "waiting" -> "waiting"
      [] p = "cancelled" -> "cancelled"
      [] p \in {"granted", "holding", "dropping", "mapped", "mapdone"} -> "held"
      [] p = "done" -> "released"

UnderlyingPc == [t \in Tasks |-> UnderlyingState(pc[t])]

UnderlyingVars == <<UnderlyingPc, readers, writer, waiters>>

\* lock.read() / lock.write() polled for the first time.
UnderlyingAcquire(t) ==
    /\ UnderlyingPc[t] = "out"
    /\ IF waiters = <<>> /\ CanGrant(op[t])
       THEN /\ TakeHold(t)
            /\ UnderlyingPc' = [UnderlyingPc EXCEPT ![t] = "held"]
            /\ UNCHANGED waiters
       ELSE /\ waiters' = Append(waiters, t)
            /\ UnderlyingPc' = [UnderlyingPc EXCEPT ![t] = "waiting"]
            /\ UNCHANGED <<readers, writer>>

\* The underlying lock grants the hold to the head of its queue.
UnderlyingGrant(t) ==
    /\ UnderlyingPc[t] = "waiting"
    /\ waiters # <<>>
    /\ Head(waiters) = t
    /\ CanGrant(op[t])
    /\ TakeHold(t)
    /\ waiters' = Tail(waiters)
    /\ UnderlyingPc' = [UnderlyingPc EXCEPT ![t] = "held"]

\* The underlying future is dropped while it waits.
UnderlyingCancel(t) ==
    /\ UnderlyingPc[t] = "waiting"
    /\ waiters' = Remove(waiters, t)
    /\ UnderlyingPc' = [UnderlyingPc EXCEPT ![t] = "cancelled"]
    /\ UNCHANGED <<readers, writer>>

\* The underlying guard is dropped: one release.
UnderlyingRelease(t) ==
    /\ UnderlyingPc[t] = "held"
    /\ t \in readers \cup writer
    /\ readers' = readers \ {t}
    /\ writer' = writer \ {t}
    /\ UnderlyingPc' = [UnderlyingPc EXCEPT ![t] = "released"]
    /\ UNCHANGED waiters

UnderlyingNext ==
    \E t \in Tasks :
        \/ UnderlyingAcquire(t)
        \/ UnderlyingGrant(t)
        \/ UnderlyingCancel(t)
        \/ UnderlyingRelease(t)

\* Stamping, trace emission and the guard's bookkeeping can always run: the
\* only position at which a call may be unable to move is the underlying
\* lock's queue, and there it moves as soon as the underlying lock grants.
NeverBlocks ==
    \A t \in Tasks :
        /\ pc[t] = "incremented" => ENABLED Load(t)
        /\ pc[t] = "loaded" => ENABLED LogAcquire(t)
        /\ pc[t] = "requested" => ENABLED Await(t)
        /\ pc[t] = "granted" => ENABLED GuardNew(t)
        /\ pc[t] = "holding" => ENABLED DropLog(t)
        /\ pc[t] = "dropping" => ENABLED DropRelease(t)
        /\ pc[t] = "waiting" =>
               /\ t \in Range(waiters)
               /\ (Head(waiters) = t /\ CanGrant(op[t])) => ENABLED Wake(t)
        /\ t \in Range(waiters) => pc[t] = "waiting"

C18_RealTimeOrder ==
    /\ [](\A t \in Tasks : Observed(t) => ticket[t] <= idx[t] /\ idx[t] <= counter)
    /\ [][/\ counter' >= counter
          /\ \A a \in Tasks : Observed(a) => idx'[a] = idx[a]
          /\ \A a, b \in Tasks :
                 (Observed(a) /\ pc[b] = "idle" /\ Observed(b)') => idx[a] < idx'[b]
          /\ \A a, b \in Tasks :
                 (Observed(a) /\ pc[b] = "idle" /\ pc'[b] # "idle") =>
                     idx[a] < ticket'[b]]_vars

\* A call began after another had observed its number and emitted its
\* Acquire line, and both have observed theirs.
C18_Witness ==
    \E a, b \in Tasks :
        /\ a # b
        /\ Observed(a) /\ Observed(b)
        /\ idx[a] <= ticket[b] - 1
        /\ idx[a] < idx[b]
        /\ \E i \in LinesOf(a, "Acquire"), j \in LinesOf(b, "Acquire") : i < j

-----------------------------------------------------------------------------
\* Line j is the Release line of the acquisition whose Got line is line i.
ReleaseOf(i, j) ==
    /\ i < j
    /\ log[j].ev = "Release"
    /\ log[j].call = log[i].call
    /\ log[j].op = log[i].op

GuardInUse(t) == pc[t] = "holding"

=============================================================================
